---------------------------- MODULE Spec2Model ----------------------------
(***************************************************************************)
(* jack-lang VM translator (crate `vm`): the code generator that lowers    *)
(* the VM instruction IR to Hack assembly text, together with the Hack     *)
(* machine that runs the emitted text.                                     *)
(*                                                                         *)
(* Text is modelled token by token: every assembly item (`@sym`, a         *)
(* C-instruction, a `(LABEL)` declaration) and every "\n" is one element   *)
(* of a sequence, so that string concatenation is sequence concatenation   *)
(* and a missing newline glues two items into one line.                    *)
(***************************************************************************)
EXTENDS Integers, Sequences, FiniteSets, TLC

(***************************************************************************)
(* Bounds of the explored inputs.                                          *)
(***************************************************************************)
\* largest argument count of a call
MaxArgs == 2
\* largest number of callee locals
MaxLocals == 2
\* largest literal of a push/pop over a base-plus-index segment
MaxIndex == 2
\* instructions one run may execute before it is cut off
MaxSteps == 200

\* the most newlines written between two lines of a source file
MaxBlank == 2

(***************************************************************************)
(* Hack words: 16 bits, two's complement.                                  *)
(***************************************************************************)
Word == 2 ^ 16

W(n) == n % Word

Signed(w) == IF w >= Word \div 2 THEN w - Word ELSE w

RECURSIVE BitAnd(_, _, _)
BitAnd(a, b, bits) ==
    IF bits = 0 THEN 0
    ELSE (IF a % 2 = 1 /\ b % 2 = 1 THEN 1 ELSE 0)
         + 2 * BitAnd(a \div 2, b \div 2, bits - 1)

RECURSIVE BitOr(_, _, _)
BitOr(a, b, bits) ==
    IF bits = 0 THEN 0
    ELSE (IF a % 2 = 1 \/ b % 2 = 1 THEN 1 ELSE 0)
         + 2 * BitOr(a \div 2, b \div 2, bits - 1)

BitNot(a) == Word - 1 - a

(***************************************************************************)
(* Assembly text tokens.                                                   *)
(***************************************************************************)
NL == [k |-> "NL"]
\* "@<symbol>\n"
At(s) == <<[k |-> "A", sym |-> s], NL>>
\* "@<number>\n": the decimal rendering of a u32
AtNum(n) == <<[k |-> "A", num |-> n], NL>>
\* "dest=comp\n"
Asg(d, c) == <<[k |-> "C", dest |-> d, comp |-> c, jump |-> ""], NL>>
\* "comp;jump" without the newline
JmpRaw(c, j) == <<[k |-> "C", dest |-> "", comp |-> c, jump |-> j]>>
\* "comp;jump\n"
Jmp(c, j) == JmpRaw(c, j) \o <<NL>>
\* "(<symbol>)\n"
Lbl(s) == <<[k |-> "L", sym |-> s], NL>>

Ok(t) == [ok |-> TRUE, text |-> t]
Err(e) == [ok |-> FALSE, err |-> e]

(***************************************************************************)
(* generate.rs: the fixed fragments.                                       *)
(***************************************************************************)
PUSH_D == At("SP") \o Asg("A", "M") \o Asg("M", "D") \o At("SP") \o Asg("M", "M+1")

POP_TO_D == At("SP") \o Asg("AM", "M-1") \o Asg("D", "M")

LOAD_TOP_TO_M == At("SP") \o Asg("A", "M-1")

\* a temp segment one cell longer
TempLast_one_more == 7 + 1

\* the limit of the temp segment
TempLast == 7
\* the first temp address
TempBase == 5

(***************************************************************************)
(* StackSegment::generate_addr                                             *)
(***************************************************************************)
\* as generate_addr, with the two pointer cells exchanged
generate_addr_pointer_swapped(segment, scope, literal) ==
    CASE segment = "Constant" -> Err("Syntax")
      [] segment = "Local" ->
           Ok(At("LCL") \o Asg("D", "M") \o AtNum(literal) \o Asg("A", "D+A"))
      [] segment = "Argument" ->
           Ok(At("ARG") \o Asg("D", "M") \o AtNum(literal) \o Asg("A", "D+A"))
      [] segment = "This" ->
           Ok(At("THIS") \o Asg("D", "M") \o AtNum(literal) \o Asg("A", "D+A"))
      [] segment = "That" ->
           Ok(At("THAT") \o Asg("D", "M") \o AtNum(literal) \o Asg("A", "D+A"))
      [] segment = "Static" -> Ok(At(scope \o "." \o ToString(literal)))
      [] segment = "Temp" ->
           IF literal > 7 THEN Err("SegmentOverflow") ELSE Ok(AtNum(5 + literal))
      [] segment = "Pointer" ->
           CASE literal = 0 -> Ok(At("THAT"))
             [] literal = 1 -> Ok(At("THIS"))
             [] OTHER -> Err("Syntax")

generate_addr(segment, scope, literal) ==
    CASE segment = "Constant" -> Err("Syntax")
      [] segment = "Local" ->
           Ok(At("LCL") \o Asg("D", "M") \o AtNum(literal) \o Asg("A", "D+A"))
      [] segment = "Argument" ->
           Ok(At("ARG") \o Asg("D", "M") \o AtNum(literal) \o Asg("A", "D+A"))
      [] segment = "This" ->
           Ok(At("THIS") \o Asg("D", "M") \o AtNum(literal) \o Asg("A", "D+A"))
      [] segment = "That" ->
           Ok(At("THAT") \o Asg("D", "M") \o AtNum(literal) \o Asg("A", "D+A"))
      [] segment = "Static" -> Ok(At(scope \o "." \o ToString(literal)))
      [] segment = "Temp" ->
           IF literal > TempLast THEN Err("SegmentOverflow")
           ELSE Ok(AtNum(TempBase + literal))
      [] segment = "Pointer" ->
           CASE literal = 0 -> Ok(At("THIS"))
             [] literal = 1 -> Ok(At("THAT"))
             [] OTHER -> Err("Syntax")

(***************************************************************************)
(* StackSegment::generate_load_to_d                                        *)
(***************************************************************************)
\* as generate_load_to_d, without the arm of the constant segment
generate_load_to_d_by_address(segment, scope, literal) ==
    LET addr == generate_addr(segment, scope, literal)
    IN  IF addr.ok THEN Ok(addr.text \o Asg("D", "M")) ELSE addr

generate_load_to_d(segment, scope, literal) ==
    IF segment = "Constant" THEN Ok(AtNum(literal) \o Asg("D", "A"))
    ELSE LET addr == generate_addr(segment, scope, literal)
         IN  IF addr.ok THEN Ok(addr.text \o Asg("D", "M")) ELSE addr

(***************************************************************************)
(* impl ScopedGenerate for StackInstr, one definition per match arm.       *)
(***************************************************************************)
Push_generate(segment, literal, scope) ==
    LET load == generate_load_to_d(segment, scope, literal)
    IN  IF load.ok THEN Ok(load.text \o PUSH_D) ELSE load

\* as Pop_generate, but popping into D before the address is computed, so
\* that a base-plus-index address computation overwrites the popped value
Pop_generate_addr_after_pop(segment, literal, scope) ==
    LET addr == generate_addr(segment, scope, literal)
    IN  IF addr.ok THEN Ok(POP_TO_D \o addr.text \o Asg("M", "D")) ELSE addr

Pop_generate(segment, literal, scope) ==
    LET addr == generate_addr(segment, scope, literal)
    IN  IF addr.ok
        THEN Ok(addr.text \o Asg("D", "A") \o At("R15") \o Asg("M", "D")
                \o POP_TO_D \o At("R15") \o Asg("A", "M") \o Asg("M", "D"))
        ELSE addr

Add_generate == Ok(POP_TO_D \o LOAD_TOP_TO_M \o Asg("M", "D+M"))

\* as Subtract_generate, with the operands exchanged (y - x)
Subtract_generate_reversed == Ok(POP_TO_D \o LOAD_TOP_TO_M \o Asg("M", "D-M"))

Subtract_generate == Ok(POP_TO_D \o LOAD_TOP_TO_M \o Asg("M", "M-D"))

Negate_generate == Ok(LOAD_TOP_TO_M \o Asg("M", "-M"))

Equal_generate(scope) ==
    Ok(POP_TO_D \o LOAD_TOP_TO_M \o Asg("D", "M-D")
       \o At("TRUE." \o scope) \o Jmp("D", "JEQ")
       \o LOAD_TOP_TO_M \o Asg("M", "0")
       \o At("END." \o scope) \o Jmp("0", "JMP")
       \o Lbl("TRUE." \o scope)
       \o LOAD_TOP_TO_M \o Asg("M", "-1")
       \o Lbl("END." \o scope))

Greater_generate(scope) ==
    Ok(POP_TO_D \o LOAD_TOP_TO_M \o Asg("D", "M-D")
       \o At("TRUE." \o scope) \o Jmp("D", "JGT")
       \o LOAD_TOP_TO_M \o Asg("M", "0")
       \o At("END." \o scope) \o Jmp("0", "JMP")
       \o Lbl("TRUE." \o scope)
       \o LOAD_TOP_TO_M \o Asg("M", "-1")
       \o Lbl("END." \o scope))

Less_generate(scope) ==
    Ok(POP_TO_D \o LOAD_TOP_TO_M \o Asg("D", "M-D")
       \o At("TRUE." \o scope) \o Jmp("D", "JLT")
       \o LOAD_TOP_TO_M \o Asg("M", "0")
       \o At("END." \o scope) \o Jmp("0", "JMP")
       \o Lbl("TRUE." \o scope)
       \o LOAD_TOP_TO_M \o Asg("M", "-1")
       \o Lbl("END." \o scope))

And_generate == Ok(POP_TO_D \o LOAD_TOP_TO_M \o Asg("M", "M&D"))

Or_generate == Ok(POP_TO_D \o LOAD_TOP_TO_M \o Asg("M", "M|D"))

Not_generate == Ok(POP_TO_D \o LOAD_TOP_TO_M \o Asg("M", "!M"))

StackInstr_scoped_generate(data, scope) ==
    CASE data.t = "Push" -> Push_generate(data.segment, data.literal, scope)
      [] data.t = "Pop" -> Pop_generate(data.segment, data.literal, scope)
      [] data.t = "Add" -> Add_generate
      [] data.t = "Subtract" -> Subtract_generate
      [] data.t = "Negate" -> Negate_generate
      [] data.t = "Equal" -> Equal_generate(scope)
      [] data.t = "Greater" -> Greater_generate(scope)
      [] data.t = "Less" -> Less_generate(scope)
      [] data.t = "And" -> And_generate
      [] data.t = "Or" -> Or_generate
      [] data.t = "Not" -> Not_generate

(***************************************************************************)
(* impl ScopedGenerate for CallInstr                                       *)
(***************************************************************************)
\* the words between the new SP and the first argument
FrameWords == 5

\* as arg_offset, forgetting the arguments (the offset of a call without any)
arg_offset_no_args(args) == FrameWords

arg_offset(args) == FrameWords + args

CallInstr_scoped_generate(data, scope) ==
    Ok(At(scope) \o Asg("D", "A") \o PUSH_D
       \o At("LCL") \o Asg("D", "M") \o PUSH_D
       \o At("ARG") \o Asg("D", "M") \o PUSH_D
       \o At("THIS") \o Asg("D", "M") \o PUSH_D
       \o At("THAT") \o Asg("D", "M") \o PUSH_D
       \o At("SP") \o Asg("D", "M") \o AtNum(arg_offset(data.args))
       \o Asg("D", "D-A") \o At("ARG") \o Asg("M", "D")
       \o At("SP") \o Asg("D", "M") \o At("LCL") \o Asg("M", "D")
       \o At(data.ident) \o Jmp("0", "JMP")
       \o Lbl(scope))

(***************************************************************************)
(* impl ScopedGenerate for BranchInstr                                     *)
(***************************************************************************)
BranchInstr_scoped_generate(data, scope) ==
    CASE data.t = "Label" -> Ok(Lbl(scope \o "." \o data.ident))
      [] data.t = "Goto" ->
           Ok(At(scope \o "." \o data.ident) \o Jmp("0", "JMP"))
      [] data.t = "CondGoto" ->
           Ok(LOAD_TOP_TO_M \o Asg("D", "M")
              \o At(scope \o "." \o data.ident) \o JmpRaw("D", "JLT"))

(***************************************************************************)
(* Result<String, _> collected from an iterator of results: the            *)
(* concatenation, or the first error.                                      *)
(***************************************************************************)
RECURSIVE Collect(_)
Collect(results) ==
    IF results = <<>> THEN Ok(<<>>)
    ELSE LET head == Head(results)
         IN  IF ~head.ok THEN head
             ELSE LET rest == Collect(Tail(results))
                  IN  IF rest.ok THEN Ok(head.text \o rest.text) ELSE rest

(***************************************************************************)
(* impl ScopedGenerate for Function                                        *)
(***************************************************************************)
\* the scope each body instruction is generated under; index counts from 0
StackScope(fn_scope, scope, index) == fn_scope \o "." \o ToString(index)

CallScope(fn_scope, scope, index) == scope \o "$ret." \o ToString(index)

BranchScope(fn_scope, scope) == scope

\* as InstrChunk, without the special case of static push and pop
InstrChunk_static_per_instruction(item, fn_scope, scope, index) ==
    CASE item.fam = "Stack" ->
           StackInstr_scoped_generate(item.data, StackScope(fn_scope, scope, index))
      [] item.fam = "Call" ->
           CallInstr_scoped_generate(item.data, CallScope(fn_scope, scope, index))
      [] item.fam = "Branch" ->
           BranchInstr_scoped_generate(item.data, BranchScope(fn_scope, scope))

InstrChunk(item, fn_scope, scope, index) ==
    CASE item.fam = "Stack" ->
           IF item.data.t \in {"Push", "Pop"} /\ item.data.segment = "Static"
           THEN StackInstr_scoped_generate(item.data, scope)
           ELSE StackInstr_scoped_generate(item.data,
                                           StackScope(fn_scope, scope, index))
      [] item.fam = "Call" ->
           CallInstr_scoped_generate(item.data, CallScope(fn_scope, scope, index))
      [] item.fam = "Branch" ->
           BranchInstr_scoped_generate(item.data, BranchScope(fn_scope, scope))

Body(fun, scope) ==
    Collect([i \in 1..Len(fun.instr) |->
                InstrChunk(fun.instr[i], fun.name, scope, i - 1)])

\* as init_local_vars, with one push less
init_local_vars_one_less(fun, scope) ==
    Collect([i \in 1..(fun.vars - 1) |-> Push_generate("Constant", 0, scope)])

init_local_vars(fun, scope) ==
    Collect([i \in 1..fun.vars |-> Push_generate("Constant", 0, scope)])

\* as ReturnEpilogue, but fetching the return address only after the
\* return value has been stored at M[ARG]
ReturnEpilogue_late_fetch ==
    LOAD_TOP_TO_M \o Asg("D", "M")
    \o At("ARG") \o Asg("A", "M") \o Asg("M", "D")
    \o Asg("D", "A+1") \o At("SP") \o Asg("M", "D")
    \o AtNum(5) \o Asg("D", "A") \o At("LCL") \o Asg("A", "M-D") \o Asg("D", "M")
    \o At("R14") \o Asg("M", "D")
    \o At("LCL") \o Asg("AM", "M-1") \o Asg("D", "M") \o At("THAT") \o Asg("M", "D")
    \o At("LCL") \o Asg("AM", "M-1") \o Asg("D", "M") \o At("THIS") \o Asg("M", "D")
    \o At("LCL") \o Asg("AM", "M-1") \o Asg("D", "M") \o At("ARG") \o Asg("M", "D")
    \o At("LCL") \o Asg("A", "M-1") \o Asg("D", "M") \o At("LCL") \o Asg("M", "D")
    \o At("R14") \o Asg("A", "M") \o Jmp("0", "JMP")

ReturnEpilogue ==
    AtNum(5) \o Asg("D", "A") \o At("LCL") \o Asg("A", "M-D") \o Asg("D", "M")
    \o At("R14") \o Asg("M", "D")
    \o LOAD_TOP_TO_M \o Asg("D", "M")
    \o At("ARG") \o Asg("A", "M") \o Asg("M", "D")
    \o Asg("D", "A+1") \o At("SP") \o Asg("M", "D")
    \o At("LCL") \o Asg("AM", "M-1") \o Asg("D", "M") \o At("THAT") \o Asg("M", "D")
    \o At("LCL") \o Asg("AM", "M-1") \o Asg("D", "M") \o At("THIS") \o Asg("M", "D")
    \o At("LCL") \o Asg("AM", "M-1") \o Asg("D", "M") \o At("ARG") \o Asg("M", "D")
    \o At("LCL") \o Asg("A", "M-1") \o Asg("D", "M") \o At("LCL") \o Asg("M", "D")
    \o At("R14") \o Asg("A", "M") \o Jmp("0", "JMP")

Function_scoped_generate(fun, scope) ==
    LET body == Body(fun, scope)
        locals == init_local_vars(fun, scope)
    IN  IF ~body.ok THEN body
        ELSE IF ~locals.ok THEN locals
        ELSE Ok(Lbl(fun.name) \o locals.text \o body.text \o ReturnEpilogue)

(***************************************************************************)
(* impl Generate for Class                                                 *)
(***************************************************************************)
Class_generate(class) ==
    Collect([i \in 1..Len(class.functions) |->
                Function_scoped_generate(class.functions[i], class.name)])

(***************************************************************************)
(* The Hack assembler: lines, labels, variables.                           *)
(***************************************************************************)
\* the lines of a text, each the sequence of items written on it; a text
\* that does not end in a newline has a last, unterminated line
Lines(text) ==
    LET n == Len(text)
        nls == {i \in 1..n : text[i].k = "NL"}
        starts == {s \in {1} \cup {i + 1 : i \in nls} : s <= n}
        endOf(s) == CHOOSE e \in (nls \cup {n + 1}) :
                       e >= s /\ \A f \in (nls \cup {n + 1}) : f >= s => e <= f
        nth(j) == CHOOSE s \in starts : Cardinality({t \in starts : t < s}) = j - 1
    IN  [j \in 1..Cardinality(starts) |-> SubSeq(text, nth(j), endOf(nth(j)) - 1)]

\* every line holds at most one item: no two items without a newline between
OneItemPerLine(text) ==
    \A i \in 1..(Len(text) - 1) : text[i].k = "NL" \/ text[i + 1].k = "NL"

\* the items of a text in order, newlines dropped
Items(text) == SelectSeq(text, LAMBDA t : t.k # "NL")

IsLabel(it) == it.k = "L"

IsInstr(it) == it.k \in {"A", "C"}

\* the label declarations of a text, as a set of positions in Items(text)
LabelDecls(text) ==
    LET items == Items(text) IN {i \in 1..Len(items) : IsLabel(items[i])}

\* the positions at which symbol s is declared as a label
DeclsOf(text, s) ==
    LET items == Items(text) IN {i \in 1..Len(items) : IsLabel(items[i]) /\ items[i].sym = s}

NoDuplicateLabel(text) ==
    LET items == Items(text)
        decls == {i \in 1..Len(items) : IsLabel(items[i])}
    IN  \A i, j \in decls : items[i].sym = items[j].sym => i = j

\* a text the assembler accepts
Assemblable(text) == OneItemPerLine(text) /\ NoDuplicateLabel(text)

\* the number of instructions (ROM words) a text assembles to
RomLen(text) == Len(SelectSeq(text, IsInstr))

\* the ROM address a label at position i of the items stands for
AddrOfDecl(items, i) == Cardinality({j \in 1..(i - 1) : IsInstr(items[j])})

Predefined ==
    ("SP" :> 0) @@ ("LCL" :> 1) @@ ("ARG" :> 2) @@ ("THIS" :> 3) @@ ("THAT" :> 4)
    @@ ("R0" :> 0) @@ ("R1" :> 1) @@ ("R2" :> 2) @@ ("R3" :> 3) @@ ("R4" :> 4)
    @@ ("R5" :> 5) @@ ("R6" :> 6) @@ ("R7" :> 7) @@ ("R8" :> 8) @@ ("R9" :> 9)
    @@ ("R10" :> 10) @@ ("R11" :> 11) @@ ("R12" :> 12) @@ ("R13" :> 13)
    @@ ("R14" :> 14) @@ ("R15" :> 15) @@ ("SCREEN" :> 16384) @@ ("KBD" :> 24576)

\* the first address the assembler gives to a variable symbol
VarBase == 16

HasSym(it) == it.k = "A" /\ "sym" \in DOMAIN it

SymbolTable(text) ==
    LET items == Items(text)
        decls == {i \in 1..Len(items) : IsLabel(items[i])}
        labels == {items[i].sym : i \in decls}
        used == {items[i].sym : i \in {j \in 1..Len(items) : HasSym(items[j])}}
        vars == (used \ labels) \ DOMAIN Predefined
        first(s) == CHOOSE i \in 1..Len(items) :
                       /\ HasSym(items[i]) /\ items[i].sym = s
                       /\ \A j \in 1..(i - 1) : ~(HasSym(items[j]) /\ items[j].sym = s)
        labelAddr(s) == AddrOfDecl(items, CHOOSE i \in decls : items[i].sym = s)
    IN  [s \in labels \cup vars \cup DOMAIN Predefined |->
            IF s \in DOMAIN Predefined THEN Predefined[s]
            ELSE IF s \in labels THEN labelAddr(s)
            ELSE VarBase + Cardinality({v \in vars : first(v) < first(s)})]

\* the ROM: the instructions with their symbols resolved
Assemble(text) ==
    LET tab == SymbolTable(text)
        code == SelectSeq(Items(text), IsInstr)
    IN  [i \in 1..Len(code) |->
            IF code[i].k = "A"
            THEN [k |-> "A", val |-> IF HasSym(code[i]) THEN tab[code[i].sym]
                                     ELSE code[i].num]
            ELSE code[i]]

(***************************************************************************)
(* The Hack CPU.                                                           *)
(***************************************************************************)
Rd(m, a) == IF a \in DOMAIN m THEN m[a] ELSE 0

Wr(m, a, v) == [x \in DOMAIN m \cup {a} |-> IF x = a THEN v ELSE m[x]]

CompVal(c, a, d, m) ==
    CASE c = "0" -> 0
      [] c = "1" -> 1
      [] c = "-1" -> W(-1)
      [] c = "D" -> d
      [] c = "A" -> a
      [] c = "M" -> m
      [] c = "!D" -> BitNot(d)
      [] c = "!A" -> BitNot(a)
      [] c = "!M" -> BitNot(m)
      [] c = "-D" -> W(-d)
      [] c = "-A" -> W(-a)
      [] c = "-M" -> W(-m)
      [] c = "D+1" -> W(d + 1)
      [] c = "A+1" -> W(a + 1)
      [] c = "M+1" -> W(m + 1)
      [] c = "D-1" -> W(d - 1)
      [] c = "A-1" -> W(a - 1)
      [] c = "M-1" -> W(m - 1)
      [] c \in {"D+A", "A+D"} -> W(d + a)
      [] c \in {"D+M", "M+D"} -> W(d + m)
      [] c = "D-A" -> W(d - a)
      [] c = "D-M" -> W(d - m)
      [] c = "A-D" -> W(a - d)
      [] c = "M-D" -> W(m - d)
      [] c \in {"D&A", "A&D"} -> BitAnd(d, a, 16)
      [] c \in {"D&M", "M&D"} -> BitAnd(d, m, 16)
      [] c \in {"D|A", "A|D"} -> BitOr(d, a, 16)
      [] c \in {"D|M", "M|D"} -> BitOr(d, m, 16)

Dests(dest) ==
    CASE dest = "" -> {}
      [] dest = "M" -> {"M"}
      [] dest = "D" -> {"D"}
      [] dest = "A" -> {"A"}
      [] dest = "MD" -> {"M", "D"}
      [] dest = "AM" -> {"A", "M"}
      [] dest = "AD" -> {"A", "D"}
      [] dest = "AMD" -> {"A", "M", "D"}

JumpTaken(j, v) ==
    CASE j = "" -> FALSE
      [] j = "JGT" -> Signed(v) > 0
      [] j = "JEQ" -> v = 0
      [] j = "JGE" -> Signed(v) >= 0
      [] j = "JLT" -> Signed(v) < 0
      [] j = "JNE" -> v # 0
      [] j = "JLE" -> Signed(v) <= 0
      [] j = "JMP" -> TRUE

(***************************************************************************)
(* parse.rs: the IR the generator consumes.                                *)
(***************************************************************************)
push(segment, literal) ==
    [fam |-> "Stack", data |-> [t |-> "Push", segment |-> segment, literal |-> literal]]

pop(segment, literal) ==
    [fam |-> "Stack", data |-> [t |-> "Pop", segment |-> segment, literal |-> literal]]

\* one of the nine arithmetic / logical variants
alu(t) == [fam |-> "Stack", data |-> [t |-> t]]

call(ident, args) == [fam |-> "Call", data |-> [ident |-> ident, args |-> args]]

label(ident) == [fam |-> "Branch", data |-> [t |-> "Label", ident |-> ident]]

goto(ident) == [fam |-> "Branch", data |-> [t |-> "Goto", ident |-> ident]]

cond_goto(ident) == [fam |-> "Branch", data |-> [t |-> "CondGoto", ident |-> ident]]

Function(instr, name, vars) == [instr |-> instr, name |-> name, vars |-> vars]

Class(functions, name) == [functions |-> functions, name |-> name]

AluOps == {"Add", "Subtract", "Negate", "Equal", "Greater", "Less", "And", "Or", "Not"}

CompareOps == {"Equal", "Greater", "Less"}

Segments ==
    {"Constant", "Local", "Argument", "This", "That", "Static", "Temp", "Pointer"}

(***************************************************************************)
(* The programs explored.  An input names a class, and the instructions    *)
(* from..to of function fi whose emitted text is then executed.            *)
(***************************************************************************)
Input(class, from, to, mode, vary) ==
    [class |-> class, fi |-> 1, from |-> from, to |-> to, mode |-> mode, vary |-> vary]

OneFn(body) == Class(<<Function(body, "Cls.f", 0)>>, "Cls")

AluInputs == {Input(OneFn(<<alu(op)>>), 1, 1, "chunk", "stack") : op \in AluOps}

SeqInputs ==
    { Input(OneFn(<<push("Constant", 1), push("Constant", 2), alu("Add")>>),
            1, 3, "chunk", "none"),
      Input(OneFn(<<push("Constant", 7), push("Constant", 8), alu("Equal")>>),
            1, 3, "chunk", "none"),
      Input(OneFn(<<push("Constant", 5), push("Constant", 5), alu("Equal")>>),
            1, 3, "chunk", "none"),
      Input(OneFn(<<push("Constant", 1), push("Constant", 2), alu("Add"),
                    push("Constant", 3), alu("Equal")>>), 1, 5, "chunk", "none") }

\* the literals tried with each segment
Literals(segment) ==
    IF segment = "Temp" THEN {0, TempLast, TempLast + 1} ELSE 0..MaxIndex

PushPopInputs ==
    UNION { { Input(OneFn(<<push(seg, i), pop(seg, i)>>), 1, 2, "chunk", "bases") :
                i \in Literals(seg) } : seg \in Segments }

BranchInputs ==
    { Input(OneFn(<<cond_goto("L"), push("Constant", 1), label("L")>>),
            1, 1, "chunk", "stack"),
      Input(OneFn(<<label("L"), goto("L")>>), 2, 2, "chunk", "none"),
      Input(OneFn(<<goto("L"), push("Constant", 1), label("L")>>),
            1, 1, "chunk", "none") }

\* the bodies tried for a callee
CalleeBodies == {<<>>, <<push("Constant", 7)>>}

CallInputs ==
    { Input(Class(<<Function(<<call("Cls.g", k)>>, "Cls.f", 0),
                    Function(body, "Cls.g", n)>>, "Cls"),
            1, 1, "callret", "frame") :
        k \in 0..MaxArgs, n \in 0..MaxLocals, body \in CalleeBodies }

\* function and class names, among them names that look like generated labels
FnNames == {"Cls.f", "Cls.g", "TRUE.Cls.f.0", "Cls"}

ClassNames == {"Cls", "TRUE"}

\* the bodies tried for the functions of a two-function class
LabelBodies ==
    { <<alu("Equal")>>,
      <<alu("Less"), alu("Greater")>>,
      <<call("Cls.g", 0)>>,
      <<label("L"), goto("L")>>,
      <<label("Cls.f.0")>>,
      <<>> }

TwoFnInputs ==
    { Input(Class(<<Function(b1, n1, 0), Function(b2, n2, 0)>>, c),
            1, 0, "chunk", "none") :
        c \in ClassNames, n1 \in FnNames, n2 \in FnNames, b1 \in LabelBodies,
        b2 \in LabelBodies }

\* static i written in one function and read at another position of another
StaticInputs ==
    { Input(Class(<<Function(<<push("Constant", 9), pop("Static", i)>>, "Cls.f", 0),
                    Function(<<push("Constant", 1), alu("Negate"), push("Static", i)>>,
                             "Cls.g", 0)>>, c),
            1, 2, "chunk", "none") : i \in 0..MaxIndex, c \in ClassNames }

\* the fixed cells: temp 0 and 7, pointer 0 and 1, written and read alone
FixedCells == {<<"Temp", 0>>, <<"Temp", TempLast>>, <<"Pointer", 0>>, <<"Pointer", 1>>}

AddrInputs ==
    { Input(OneFn(<<push("Constant", 5), pop(c[1], c[2])>>), 1, 2, "chunk", "bases") :
        c \in FixedCells }
    \cup { Input(OneFn(<<push(c[1], c[2])>>), 1, 1, "chunk", "bases") :
              c \in FixedCells }

\* the largest constant an A-instruction holds
MaxConstant == 32767

ConstInputs ==
    { Input(OneFn(<<push("Constant", n)>>), 1, 1, "chunk", "none") :
        n \in {0, 1, MaxConstant} }

\* classes with an instruction the generator refuses, after instructions
\* and functions it accepts
ErrorInputs ==
    { Input(OneFn(<<push("Temp", TempLast), pop("Temp", TempLast + d)>>),
            1, 0, "chunk", "none") : d \in 1..2 }
    \cup { Input(OneFn(<<push("Pointer", 1), pop("Pointer", 1 + d)>>),
                  1, 0, "chunk", "none") : d \in 1..2 }
    \cup { Input(Class(<<Function(b1, "Cls.f", 0), Function(b2, "Cls.g", 1)>>, "Cls"),
                  1, 0, "chunk", "none") :
              b1 \in {<<push("Constant", 1)>>, <<pop("Constant", 1)>>},
              b2 \in {<<push("Constant", 1), pop("Constant", 0)>>} }

\* a branch identifier that is the last part of the function's name
NameInputs ==
    { Input(OneFn(<<label("f"), push("Constant", 1)>>), 1, 0, "chunk", "none") }

\* functions with locals, executed from their label to their first instruction
PrologueInputs ==
    { Input(Class(<<Function(body, "Cls.f", n)>>, "Cls"), 1, 0, "prologue", "dirty") :
        n \in 0..MaxLocals, body \in CalleeBodies }

Inputs ==
    AluInputs \cup SeqInputs \cup PushPopInputs \cup BranchInputs \cup CallInputs
    \cup StaticInputs \cup AddrInputs \cup ConstInputs \cup ErrorInputs
    \cup NameInputs \cup PrologueInputs
    \cup {i \in TwoFnInputs :
            i.class.functions[1].name # i.class.functions[2].name}

(***************************************************************************)
(* The memory a run starts from.                                           *)
(***************************************************************************)
\* the address of the empty stack (BOOTSTRAP)
StackBase == 256

\* words tried as operands: zero, small, the extremes and a bit pattern
WordSamples == {0, 1, 2, 21845, 32767, 32768, 65534, 65535}

\* values tried for LCL and ARG: unset, or inside the stack area
FrameBases == {0, 257, 300}

\* values tried for THIS and THAT: any word a pop pointer can store
PtrBases == {0, 4, 13, 15, 257, 258, 3000}

\* memory outside the stack holds a value that tells its address
Background ==
    [a \in (5..15) \cup (16..18) \cup (300..303) \cup (3000..3003) |-> 7000 + a]

Memory(sp, lcl, arg, this, that, cells) ==
    [a \in {0, 1, 2, 3, 4} \cup (StackBase..(StackBase + Len(cells) - 1)) |->
        CASE a = 0 -> sp
          [] a = 1 -> lcl
          [] a = 2 -> arg
          [] a = 3 -> this
          [] a = 4 -> that
          [] OTHER -> cells[a - StackBase + 1]] @@ Background

InitialMemories(inp) ==
    CASE inp.vary = "stack" ->
           { Memory(StackBase + 3, 300, 310, 3000, 3010, <<4242, x, y>>) :
               x \in WordSamples, y \in WordSamples }
      [] inp.vary = "bases" ->
           { Memory(StackBase + 2, f, f, b, b, <<4242, 77>>) :
               f \in FrameBases, b \in PtrBases }
      [] inp.vary = "frame" ->
           { Memory(StackBase + MaxArgs + d, 300, 310, 3000, 3010,
                    [i \in 1..(MaxArgs + d) |-> 10 + i]) : d \in {0, 1} }
      [] inp.vary = "dirty" ->
           { Memory(StackBase + 1, 300, 310, 3000, 3010, <<4242, x, y>>) :
               x \in WordSamples, y \in {1, 65535} }
      [] inp.vary = "none" ->
           { Memory(StackBase, 300, 310, 3000, 3010, <<>>) }

(***************************************************************************)
(* Where the executed instructions sit in the ROM.                         *)
(***************************************************************************)
\* the text of the class up to and including instruction n of function fi
PrefixText(class, fi, n) ==
    LET fun == class.functions[fi]
        before == Collect([i \in 1..(fi - 1) |->
                     Function_scoped_generate(class.functions[i], class.name)])
        cut == [fun EXCEPT !.instr = SubSeq(fun.instr, 1, n)]
    IN  before.text \o Lbl(fun.name) \o init_local_vars(fun, class.name).text
        \o Body(cut, class.name).text

\* the text of the class before function fi
TextBefore(class, fi) ==
    Collect([i \in 1..(fi - 1) |->
                Function_scoped_generate(class.functions[i], class.name)]).text

ChunkStart(inp) ==
    IF inp.mode = "prologue" THEN RomLen(TextBefore(inp.class, inp.fi))
    ELSE RomLen(PrefixText(inp.class, inp.fi, inp.from - 1))

ChunkEnd(inp) == RomLen(PrefixText(inp.class, inp.fi, inp.to))

\* a call-and-return run records the memory as the callee's epilogue begins
WatchAddr(inp) ==
    IF inp.mode = "callret"
    THEN RomLen(PrefixText(inp.class, 2, Len(inp.class.functions[2].instr)))
    ELSE -1

(***************************************************************************)
(* parse.rs: tokens and the parser.  A parser takes the tokens and a       *)
(* position and returns what it read and the position after it.            *)
(***************************************************************************)
Tok(t) == [t |-> t]

TokIdent(v) == [t |-> "Ident", v |-> v]

TokInt(n) == [t |-> "LitInt", v |-> n]

Is(tokens, i, t) == i <= Len(tokens) /\ tokens[i].t = t

Read(item, next) == [ok |-> TRUE, item |-> item, next |-> next]

NoRead == [ok |-> FALSE]

stack_instr_parser(tokens, i) ==
    CASE i <= Len(tokens) /\ tokens[i].t \in AluOps -> Read(alu(tokens[i].t), i + 1)
      [] /\ Is(tokens, i, "Push")
         /\ i + 1 <= Len(tokens) /\ tokens[i + 1].t \in Segments
         /\ Is(tokens, i + 2, "LitInt") ->
           Read(push(tokens[i + 1].t, tokens[i + 2].v), i + 3)
      [] /\ Is(tokens, i, "Pop")
         /\ i + 1 <= Len(tokens) /\ tokens[i + 1].t \in Segments
         /\ Is(tokens, i + 2, "LitInt") ->
           Read(pop(tokens[i + 1].t, tokens[i + 2].v), i + 3)
      [] OTHER -> NoRead

branch_instr_parser(tokens, i) ==
    CASE Is(tokens, i, "Label") /\ Is(tokens, i + 1, "Ident") ->
           Read(label(tokens[i + 1].v), i + 2)
      [] Is(tokens, i, "Goto") /\ Is(tokens, i + 1, "Ident") ->
           Read(goto(tokens[i + 1].v), i + 2)
      [] Is(tokens, i, "CondGoto") /\ Is(tokens, i + 1, "Ident") ->
           Read(cond_goto(tokens[i + 1].v), i + 2)
      [] OTHER -> NoRead

\* choice((a, b)): the first alternative that reads
choice(a, b) == IF a.ok THEN a ELSE b

call_instr_parser(tokens, i) ==
    IF Is(tokens, i, "Call") /\ Is(tokens, i + 1, "Ident") /\ Is(tokens, i + 2, "LitInt")
    THEN Read(call(tokens[i + 1].v, tokens[i + 2].v), i + 3)
    ELSE NoRead

instr_parser(tokens, i) ==
    choice(stack_instr_parser(tokens, i),
           choice(call_instr_parser(tokens, i), branch_instr_parser(tokens, i)))

\* .allow_leading(): at most one separator before the first item
skip_leading(tokens, i) == IF Is(tokens, i, "Newline") THEN i + 1 ELSE i

\* instr_parser().separated_by(just(Newline)): after the instructions read
\* so far, one separator and one more instruction; a separator that no
\* instruction follows is the trailing one.  r is what instr_parser read
\* where the next instruction may start, stop the position kept if it failed
RECURSIVE more_instr(_, _, _)
then_more_instr(tokens, stop, items, r) ==
    IF r.ok THEN more_instr(tokens, r.next, Append(items, r.item))
    ELSE Read(items, stop)

more_instr(tokens, i, items) ==
    IF ~Is(tokens, i, "Newline") THEN Read(items, i)
    ELSE then_more_instr(tokens, i + 1, items, instr_parser(tokens, i + 1))

\* .allow_leading().allow_trailing().collect()
parse_instr(tokens, i) ==
    then_more_instr(tokens, skip_leading(tokens, i), <<>>,
                    instr_parser(tokens, skip_leading(tokens, i)))

\* .then_ignore(just(Token::Return)) after the body read
then_return(tokens, i, body) ==
    IF Is(tokens, body.next, "Return")
    THEN Read(Function(body.item, tokens[i + 1].v, tokens[i + 2].v), body.next + 1)
    ELSE NoRead

function_parser(tokens, i) ==
    IF /\ Is(tokens, i, "Function") /\ Is(tokens, i + 1, "Ident")
       /\ Is(tokens, i + 2, "LitInt")
    THEN then_return(tokens, i, parse_instr(tokens, i + 3))
    ELSE NoRead

\* the functions, separated in the same way
RECURSIVE more_functions(_, _, _)
then_more_functions(tokens, stop, items, r) ==
    IF r.ok THEN more_functions(tokens, r.next, Append(items, r.item))
    ELSE Read(items, stop)

more_functions(tokens, i, items) ==
    IF ~Is(tokens, i, "Newline") THEN Read(items, i)
    ELSE then_more_functions(tokens, i + 1, items, function_parser(tokens, i + 1))

parse_functions(tokens, i) ==
    then_more_functions(tokens, skip_leading(tokens, i), <<>>,
                        function_parser(tokens, skip_leading(tokens, i)))

\* into_result(): the functions, when all the input was read
into_result(tokens, r) ==
    IF r.next = Len(tokens) + 1 THEN [ok |-> TRUE, functions |-> r.item]
    ELSE [ok |-> FALSE, err |-> "Syntax"]

\* parser().parse(tokens)
parser(tokens) == into_result(tokens, parse_functions(tokens, 1))

(***************************************************************************)
(* Source files: a program written as tokens.  A layout gives the number   *)
(* of newlines after a function header, between the lines of a body,       *)
(* between functions, and at the two ends of the file.                     *)
(***************************************************************************)
Newlines(k) == [j \in 1..k |-> Tok("Newline")]

WriteInstr(item) ==
    CASE item.fam = "Stack" /\ item.data.t = "Push" ->
           <<Tok("Push"), Tok(item.data.segment), TokInt(item.data.literal)>>
      [] item.fam = "Stack" /\ item.data.t = "Pop" ->
           <<Tok("Pop"), Tok(item.data.segment), TokInt(item.data.literal)>>
      [] item.fam = "Stack" /\ item.data.t \in AluOps -> <<Tok(item.data.t)>>
      [] item.fam = "Call" ->
           <<Tok("Call"), TokIdent(item.data.ident), TokInt(item.data.args)>>
      [] item.fam = "Branch" -> <<Tok(item.data.t), TokIdent(item.data.ident)>>

RECURSIVE WriteBody(_, _)
WriteBody(instr, layout) ==
    IF instr = <<>> THEN <<>>
    ELSE WriteInstr(Head(instr)) \o Newlines(layout.body)
            \o WriteBody(Tail(instr), layout)

WriteFunction(fun, layout) ==
    <<Tok("Function"), TokIdent(fun.name), TokInt(fun.vars)>>
        \o Newlines(layout.head) \o WriteBody(fun.instr, layout) \o <<Tok("Return")>>

RECURSIVE WriteFunctions(_, _)
WriteFunctions(functions, layout) ==
    IF Len(functions) = 1 THEN WriteFunction(functions[1], layout)
    ELSE WriteFunction(Head(functions), layout) \o Newlines(layout.between)
            \o WriteFunctions(Tail(functions), layout)

WriteProgram(functions, layout) ==
    Newlines(layout.edge) \o WriteFunctions(functions, layout) \o Newlines(layout.edge)

Layouts == [head : 1..MaxBlank, body : 1..MaxBlank, between : 1..MaxBlank, edge : 0..1]

Plain == [head |-> 1, body |-> 1, between |-> 1, edge |-> 0]

\* the program of tests::parse_program, a function without instructions,
\* and a function the generator refuses
Programs ==
    { <<Function(<<push("Constant", 1), push("Constant", 2), alu("Add"),
                   call("Label", 0)>>, "Test", 0),
        Function(<<label("LABEL"), goto("LABEL")>>, "Label", 0)>>,
      <<Function(<<>>, "Main.main", 1)>>,
      <<Function(<<pop("Constant", 0)>>, "Main.f", 0)>> }

\* a file: whether it can be read, whether it lexes, its tokens, and the
\* program and layout it was written from
Source(program, layout) ==
    [readable |-> TRUE, lexes |-> TRUE, tokens |-> WriteProgram(program, layout),
     program |-> program, layout |-> layout]

Unreadable == [readable |-> FALSE]

Unlexable == [readable |-> TRUE, lexes |-> FALSE]

Sources ==
    {Source(program, layout) : program \in Programs, layout \in Layouts}
    \cup {Unreadable, Unlexable}

LibSource == Source(<<Function(<<push("Constant", 1)>>, "Lib.f", 0)>>, Plain)

\* parse(input): lexing, then the parser
parse(source) ==
    IF ~source.lexes THEN [ok |-> FALSE, err |-> "Lexing"] ELSE parser(source.tokens)

(***************************************************************************)
(* The state: the class handed to the generator, what the generator        *)
(* returned, and the machine running the assembled text.                   *)
(***************************************************************************)
VARIABLES
    in,      \* the class and the instructions to execute
    phase,   \* "ir", "gen" (generated), "run" (loaded), "fault" (not assemblable)
    out,     \* the Result of Class::generate
    rom,     \* the assembled instructions
    symtab,  \* the assembler's symbol table
    pc,      \* the address of the next instruction
    A,       \* the address register
    D,       \* the data register
    ram,     \* the data memory, address |-> word (0 where absent)
    ram0,    \* the data memory the run started from
    lo,      \* the address of the first instruction to execute
    hi,      \* the address after the last instruction to execute
    watch,   \* the address at which the memory is recorded (-1: none)
    seen,    \* the data memory when pc reached watch
    last,    \* the address of the instruction executed last (-1: none)
    steps,   \* instructions executed so far
    drv      \* the command-line driver: its position, files and exit code

vars ==
    <<in, phase, out, rom, symtab, pc, A, D, ram, ram0, lo, hi, watch, seen, last,
      steps, drv>>

\* all but the driver
machine ==
    <<in, phase, out, rom, symtab, pc, A, D, ram, ram0, lo, hi, watch, seen, last, steps>>

NoResult == [ok |-> FALSE, err |-> "none"]

Init ==
    /\ in \in Inputs
    /\ phase = "ir"
    /\ out = NoResult
    /\ rom = <<>>
    /\ symtab = <<>>
    /\ pc = 0
    /\ A = 0
    /\ D = 0
    /\ ram = <<>>
    /\ ram0 = <<>>
    /\ lo = 0
    /\ hi = 0
    /\ watch = -1
    /\ seen = <<>>
    /\ last = -1
    /\ steps = 0
    /\ drv = [at |-> "idle"]

\* Class::generate on the class of the input
Generate ==
    /\ phase = "ir"
    /\ out' = Class_generate(in.class)
    /\ phase' = "gen"
    /\ UNCHANGED <<in, rom, symtab, pc, A, D, ram, ram0, lo, hi, watch, seen, last, steps, drv>>

\* the assembler refuses the text
Reject ==
    /\ phase = "gen"
    /\ out.ok
    /\ Assemblable(out.text) = FALSE
    /\ phase' = "fault"
    /\ UNCHANGED <<in, out, rom, symtab, pc, A, D, ram, ram0, lo, hi, watch, seen, last, steps, drv>>

\* the text is assembled and the machine set at the first chosen instruction
Load ==
    /\ phase = "gen"
    /\ out.ok
    /\ Assemblable(out.text) = TRUE
    /\ \E m \in InitialMemories(in) :
          /\ ram' = m
          /\ ram0' = m
    /\ rom' = Assemble(out.text)
    /\ symtab' = SymbolTable(out.text)
    /\ pc' = ChunkStart(in)
    /\ lo' = ChunkStart(in)
    /\ hi' = ChunkEnd(in)
    /\ watch' = WatchAddr(in)
    /\ A' = 0
    /\ D' = 0
    /\ phase' = "run"
    /\ UNCHANGED <<in, out, seen, last, steps, drv>>

\* the run has reached the end of what it was to execute
Halted ==
    /\ phase = "run"
    /\ \/ pc >= Len(rom)
       \/ in.mode \in {"chunk", "prologue"} /\ (pc < lo \/ pc >= hi)
       \/ in.mode = "callret" /\ pc = hi

Running == phase = "run" /\ ~Halted /\ steps < MaxSteps

\* an A-instruction
StepA ==
    /\ Running
    /\ rom[pc + 1].k = "A"
    /\ A' = rom[pc + 1].val
    /\ pc' = pc + 1
    /\ last' = pc
    /\ seen' = IF pc + 1 = watch THEN ram ELSE seen
    /\ steps' = steps + 1
    /\ UNCHANGED <<in, phase, out, rom, symtab, D, ram, ram0, lo, hi, watch, drv>>

\* a C-instruction
StepC ==
    /\ Running
    /\ rom[pc + 1].k = "C"
    /\ LET ins == rom[pc + 1]
           v == CompVal(ins.comp, A, D, Rd(ram, A))
           d == Dests(ins.dest)
       IN  /\ A' = IF "A" \in d THEN v ELSE A
           /\ D' = IF "D" \in d THEN v ELSE D
           /\ ram' = IF "M" \in d THEN Wr(ram, A, v) ELSE ram
           /\ pc' = IF JumpTaken(ins.jump, v) THEN A ELSE pc + 1
    /\ last' = pc
    /\ seen' = IF pc' = watch THEN ram' ELSE seen
    /\ steps' = steps + 1
    /\ UNCHANGED <<in, phase, out, rom, symtab, ram0, lo, hi, watch, drv>>

Next == Generate \/ Reject \/ Load \/ StepA \/ StepC

Spec == Init /\ [][Next]_vars

(***************************************************************************)
(* vm-cli main.rs: the driver.  The input is the file Main.vm, or a        *)
(* directory with Main.vm and perhaps Lib.vm, or a directory without vm    *)
(* files.                                                                  *)
(***************************************************************************)
BOOTSTRAP ==
    AtNum(StackBase) \o Asg("D", "A") \o At("SP") \o Asg("M", "D")
        \o At("Sys.init") \o Jmp("0", "JMP")

bootstrap == BOOTSTRAP

File(stem, source) == [stem |-> stem, source |-> source]

\* Path::file_name and Path::file_stem of a vm file
file_name(file) == file.stem \o ".vm"

file_stem(file) == file.stem

Environments ==
    { [kind |-> k, files |-> fs, temp_ok |-> t, output_ok |-> o, no_boot |-> b] :
        k \in {"file", "dir"},
        fs \in {{}} \cup {{File("Main", src)} : src \in Sources}
                 \cup {{File("Main", src), File("Lib", LibSource)} : src \in Sources},
        t \in BOOLEAN, o \in BOOLEAN, b \in BOOLEAN }

\* the body shared by the two branches of compile: read, parse, generate.
\* The result carries the parse result once the file was read
after_generate(parsed_fn, generated) ==
    IF ~generated.ok THEN [ok |-> FALSE, err |-> "Generating", parsed |-> parsed_fn]
    ELSE [ok |-> TRUE, text |-> generated.text, parsed |-> parsed_fn]

after_parse(parsed_fn, class_name) ==
    IF ~parsed_fn.ok THEN [ok |-> FALSE, err |-> "Parsing", parsed |-> parsed_fn]
    ELSE after_generate(parsed_fn,
                        Class_generate(Class(parsed_fn.functions, class_name)))

CompileOne(file, class_name) ==
    IF ~file.source.readable THEN [ok |-> FALSE, err |-> "IO"]
    ELSE after_parse(parse(file.source), class_name)

\* the parse results seen so far, with that of one more file
Noted(parsed, file, r) ==
    IF "parsed" \in DOMAIN r THEN parsed @@ (file.stem :> r.parsed) ELSE parsed

\* the for loop of the directory branch over the files in listing order:
\* the files written, the parse results seen, and whether an error ended it
RECURSIVE CompileFiles(_, _, _)
after_file(vm_files, tmp, parsed, r) ==
    IF r.ok
    THEN CompileFiles(Tail(vm_files),
                      ((Head(vm_files).stem \o ".asm") :> r.text) @@ tmp,
                      Noted(parsed, Head(vm_files), r))
    ELSE [ok |-> FALSE, tmp |-> tmp, parsed |-> Noted(parsed, Head(vm_files), r)]

CompileFiles(vm_files, tmp, parsed) ==
    IF vm_files = <<>> THEN [ok |-> TRUE, tmp |-> tmp, parsed |-> parsed]
    ELSE after_file(vm_files, tmp, parsed,
                    CompileOne(Head(vm_files), file_stem(Head(vm_files))))

\* the orders in which a directory may list a set of entries
Listings(entries) ==
    { order \in [1..Cardinality(entries) -> entries] :
        \A i, j \in 1..Cardinality(entries) : order[i] = order[j] => i = j }

RECURSIVE Concat(_, _)
Concat(order, tmp) ==
    IF order = <<>> THEN <<>> ELSE tmp[Head(order)] \o Concat(Tail(order), tmp)

NoFile == [written |-> FALSE]

DriverInit ==
    /\ drv \in { [at |-> "main", env |-> e, tmp |-> <<>>, parsed |-> <<>>,
                  outfile |-> NoFile, exit |-> -1] :
                 e \in {x \in Environments : x.kind = "dir" \/ Cardinality(x.files) = 1} }
    /\ in = Input(OneFn(<<>>), 1, 0, "chunk", "none")
    /\ phase = "cli"
    /\ out = NoResult
    /\ rom = <<>>
    /\ symtab = <<>>
    /\ pc = 0
    /\ A = 0
    /\ D = 0
    /\ ram = <<>>
    /\ ram0 = <<>>
    /\ lo = 0
    /\ hi = 0
    /\ watch = -1
    /\ seen = <<>>
    /\ last = -1
    /\ steps = 0

\* main up to the call of compile: the temporary directory is made anew
MainPrepare ==
    /\ drv.at = "main"
    /\ drv' = IF drv.env.temp_ok THEN [drv EXCEPT !.at = "compile"]
              ELSE [drv EXCEPT !.at = "exit", !.exit = 1]
    /\ UNCHANGED machine

\* the driver after compile returned r on a directory
AfterCompileDir(d, r) ==
    [d EXCEPT !.at = IF r.ok THEN "link" ELSE "exit",
              !.exit = IF r.ok THEN -1 ELSE 1,
              !.tmp = r.tmp, !.parsed = r.parsed]

\* compile on a directory
CompileDir ==
    /\ drv.at = "compile"
    /\ drv.env.kind = "dir"
    /\ IF drv.env.files = {}
       THEN drv' = [drv EXCEPT !.at = "exit", !.exit = 1]
       ELSE \E vm_files \in Listings(drv.env.files) :
              drv' = AfterCompileDir(drv, CompileFiles(vm_files, <<>>, <<>>))
    /\ UNCHANGED machine

\* the driver after the file branch of compile did r on file
AfterCompileFile(d, file, r) ==
    [d EXCEPT !.at = "exit", !.exit = 1,
              !.tmp = IF r.ok THEN (file.stem \o ".asm") :> r.text ELSE <<>>,
              !.parsed = Noted(<<>>, file, r)]

\* compile on a single file: the file is compiled and written, and control
\* then reaches the final Err(EmptySource) in every case
CompileFile ==
    /\ drv.at = "compile"
    /\ drv.env.kind = "file"
    /\ \E file \in drv.env.files :
          drv' = AfterCompileFile(drv, file, CompileOne(file, file_name(file)))
    /\ UNCHANGED machine

\* link: the asm files of the temporary directory, after the bootstrap
Link ==
    /\ drv.at = "link"
    /\ IF DOMAIN drv.tmp = {} \/ ~drv.env.output_ok
       THEN drv' = [drv EXCEPT !.at = "exit", !.exit = 1]
       ELSE \E asm_files \in Listings(DOMAIN drv.tmp) :
              drv' = [drv EXCEPT
                        !.at = "exit", !.exit = 0,
                        !.outfile =
                           [written |-> TRUE,
                            text |-> (IF drv.env.no_boot THEN <<>> ELSE bootstrap)
                                        \o Concat(asm_files, drv.tmp)]]
    /\ UNCHANGED machine

DriverNext == MainPrepare \/ CompileDir \/ CompileFile \/ Link

DriverSpec == DriverInit /\ [][DriverNext]_vars

(***************************************************************************)
(* What the claims speak of.                                               *)
(***************************************************************************)
\* the memory now and when the run started
M(a) == Rd(ram, a)

M0(a) == Rd(ram0, a)

\* the stack pointer when the run started
S0 == M0(0)

\* instruction n of the function the run executes
Ins(n) == in.class.functions[in.fi].instr[n].data

\* the stack cells below address a are as they were
StackKeptBelow(a) == \A c \in StackBase..(a - 1) : M(c) = M0(c)

\* the executed instructions have been run to their end
Finished == Halted /\ steps > 0

(***************************************************************************)
(* C1  call f k, started with stack pointer S: when control arrives at f,  *)
(* the five words M[S..S+4] are the address of the return label and the    *)
(* caller's LCL, ARG, THIS, THAT, in this order; SP = S + 5, ARG = S - k,  *)
(* LCL = S + 5; nothing below S has changed; and the return label is       *)
(* declared right after the jump to f.                                     *)
(***************************************************************************)
\* the jump that ends the call has just been executed
AtCallee == phase = "run" /\ in.mode = "callret" /\ last = hi - 1

\* the label declared right after `@f` `0;JMP`, and its address is a
ReturnLabelAfterJump(f, a) ==
    LET items == Items(out.text)
    IN  \E i \in 3..Len(items) :
           /\ IsLabel(items[i])
           /\ items[i - 1] = [k |-> "C", dest |-> "", comp |-> "0", jump |-> "JMP"]
           /\ items[i - 2] = [k |-> "A", sym |-> f]
           /\ AddrOfDecl(items, i) = a
           /\ symtab[items[i].sym] = a

Returned ==
    /\ phase = "run" /\ in.mode = "callret"
    /\ seen # <<>>
    /\ last = watch + RomLen(ReturnEpilogue) - 1

\* the value on top of the stack when the epilogue began
ReturnValue == Rd(seen, Rd(seen, 0) - 1)

RunsOne(fam, t) ==
    /\ in.from = in.to
    /\ in.class.functions[in.fi].instr[in.from].fam = fam
    /\ Ins(in.from).t = t

\* the operands a run over the stack starts with: x below y, y on top
X0 == M0(S0 - 2)

Y0 == M0(S0 - 1)

(***************************************************************************)
(* C3  if-goto L pops the top value v and jumps to the label L if and only *)
(* if v # 0; with v = 0 execution continues with the next instruction.     *)
(***************************************************************************)
\* the ROM address the declaration `label L` of instruction n stands for
LabelAddr(n) == RomLen(PrefixText(in.class, in.fi, n - 1))

C3_IfGotoJumpsIffNonZero ==
    RunsOne("Branch", "CondGoto") =>
        /\ phase # "fault"
        /\ Finished =>
              /\ M(0) = S0 - 1
              /\ StackKeptBelow(S0 - 1)
              /\ Y0 # 0 => pc = LabelAddr(3)
              /\ Y0 = 0 => pc = hi

(***************************************************************************)
(* C4  neg and not replace the top stack word t in place, by -t and by     *)
(* the bitwise complement of t; SP and the other stack cells are kept.     *)
(***************************************************************************)
C4_NegNotInPlace ==
    /\ RunsOne("Stack", "Negate") /\ Finished =>
          /\ M(0) = S0
          /\ M(S0 - 1) = W(0 - Y0)
          /\ StackKeptBelow(S0 - 1)
    /\ RunsOne("Stack", "Not") /\ Finished =>
          /\ M(0) = S0
          /\ M(S0 - 1) = Word - 1 - Y0
          /\ StackKeptBelow(S0 - 1)

(***************************************************************************)
(* C5  eq, gt, lt pop y and x and push -1 if x = y, x > y, x < y as        *)
(* signed 16-bit values, and 0 otherwise; SP decreases by one.             *)
(***************************************************************************)
Related(t, x, y) ==
    CASE t = "Equal" -> Signed(x) = Signed(y)
      [] t = "Greater" -> Signed(x) > Signed(y)
      [] t = "Less" -> Signed(x) < Signed(y)

C5_CompareSigned ==
    \A t \in CompareOps :
        RunsOne("Stack", t) /\ Finished =>
            /\ M(0) = S0 - 1
            /\ M(S0 - 2) = IF Related(t, X0, Y0) THEN Word - 1 ELSE 0
            /\ StackKeptBelow(S0 - 2)

(***************************************************************************)
(* C6  add, sub, and, or pop y and x and leave x+y, x-y, x AND y, x OR y   *)
(* (16 bits) on top, SP one less; push constant 1; push constant 2; add    *)
(* leaves 3 on top.                                                        *)
(***************************************************************************)
\* bit b of word w
Bit(w, b) == (w \div (2 ^ b)) % 2

IsResult(t, r, x, y) ==
    CASE t = "Add" -> r = (x + y) % Word
      [] t = "Subtract" -> r = (x - y) % Word
      [] t = "And" ->
           r \in 0..(Word - 1) /\ \A b \in 0..15 : Bit(r, b) = Bit(x, b) * Bit(y, b)
      [] t = "Or" ->
           /\ r \in 0..(Word - 1)
           /\ \A b \in 0..15 : Bit(r, b) = IF Bit(x, b) + Bit(y, b) > 0 THEN 1 ELSE 0

\* the run executes push constant 1; push constant 2; add
RunsOnePlusTwo ==
    /\ in.from = 1 /\ in.to = 3
    /\ in.class.functions[in.fi].instr =
          <<push("Constant", 1), push("Constant", 2), alu("Add")>>

C6_BinaryOps ==
    /\ \A t \in {"Add", "Subtract", "And", "Or"} :
          RunsOne("Stack", t) /\ Finished =>
              /\ M(0) = S0 - 1
              /\ IsResult(t, M(S0 - 2), X0, Y0)
              /\ StackKeptBelow(S0 - 2)
    /\ RunsOnePlusTwo /\ Finished =>
          /\ M(0) = S0 + 1
          /\ M(M(0) - 1) = 3

C6_Witness ==
    /\ RunsOne("Stack", "Subtract") /\ Finished
    /\ X0 = 1 /\ Y0 = 2
    /\ M(S0 - 2) = Word - 1

(***************************************************************************)
(* C7  push seg i; pop seg i over an addressable segment leaves SP, the    *)
(* stack cells below SP and M[addr(seg, i)] as they were.                  *)
(***************************************************************************)
\* the run executes push seg i; pop seg i
RunsPushPop ==
    /\ in.from = 1 /\ in.to = 2
    /\ in.class.functions[in.fi].instr[1].fam = "Stack"
    /\ Ins(1).t = "Push"
    /\ in.class.functions[in.fi].instr[2] = pop(Ins(1).segment, Ins(1).literal)

\* addr(seg, i) in the memory the run started from
SegAddr(segment, i) ==
    CASE segment = "Local" -> (M0(1) + i) % Word
      [] segment = "Argument" -> (M0(2) + i) % Word
      [] segment = "This" -> (M0(3) + i) % Word
      [] segment = "That" -> (M0(4) + i) % Word
      [] segment = "Static" -> symtab[in.class.name \o "." \o ToString(i)]
      [] segment = "Temp" -> 5 + i
      [] segment = "Pointer" -> 3 + i

C7_PushPopRestores ==
    RunsPushPop /\ Finished =>
        /\ M(0) = S0
        /\ StackKeptBelow(S0)
        /\ M(SegAddr(Ins(1).segment, Ins(1).literal))
              = M0(SegAddr(Ins(1).segment, Ins(1).literal))

\* the pair over a cell that is the top of the stack itself
C7_Witness ==
    /\ RunsPushPop /\ Finished
    /\ Ins(1).segment = "That"
    /\ SegAddr("That", Ins(1).literal) = S0 - 1
    /\ M(S0 - 1) = 77

(***************************************************************************)
(* Labels of the generated class.  A site <<fi, n>> is instruction n of    *)
(* function fi; its ordinal index is n - 1.                                *)
(***************************************************************************)
Generated == phase = "gen" /\ out.ok

Sites(fam, ts) ==
    { s \in (1..Len(in.class.functions)) \X (1..MaxIndex + 1) :
        /\ s[2] <= Len(in.class.functions[s[1]].instr)
        /\ in.class.functions[s[1]].instr[s[2]].fam = fam
        /\ fam = "Call" \/ in.class.functions[s[1]].instr[s[2]].data.t \in ts }

FnName(s) == in.class.functions[s[1]].name

\* the assembly emitted for the instruction at site s
ChunkOf(s) ==
    InstrChunk(in.class.functions[s[1]].instr[s[2]], FnName(s), in.class.name,
               s[2] - 1).text

\* the labels a text declares
Declared(text) == {text[i].sym : i \in {j \in 1..Len(text) : IsLabel(text[j])}}

\* the labels a text declares or addresses (the machine's own symbols aside)
Mentioned(text) ==
    Declared(text) \cup
    ({text[i].sym : i \in {j \in 1..Len(text) : HasSym(text[j])}}
        \ DOMAIN Predefined)

(***************************************************************************)
(* C8  The return label of a call site is <function>$ret.<index>, so the   *)
(* return labels of two distinct call sites of one class differ, also at   *)
(* the same index in two functions.                                        *)
(***************************************************************************)
C8_ReturnLabelsDistinct ==
    Generated =>
        /\ \A s \in Sites("Call", {}) :
              Declared(ChunkOf(s)) =
                  {FnName(s) \o "$ret." \o ToString(s[2] - 1)}
        /\ \A s, t \in Sites("Call", {}) :
              s # t => Declared(ChunkOf(s)) \cap Declared(ChunkOf(t)) = {}

(***************************************************************************)
(* C9  label L, goto L, if-goto L inside function F use the assembly name  *)
(* F.L, so one identifier in two functions gives two assembly labels.      *)
(***************************************************************************)
BranchKinds == {"Label", "Goto", "CondGoto"}

C9_BranchLabelsFunctionLocal ==
    Generated =>
        /\ \A s \in Sites("Branch", BranchKinds) :
              Mentioned(ChunkOf(s)) =
                  {FnName(s) \o "."
                     \o in.class.functions[s[1]].instr[s[2]].data.ident}
        /\ \A s, t \in Sites("Branch", BranchKinds) :
              s[1] # t[1] => Mentioned(ChunkOf(s)) \cap Mentioned(ChunkOf(t)) = {}

(***************************************************************************)
(* C10  With pairwise distinct function names, the TRUE.<scope> and        *)
(* END.<scope> labels of two distinct comparisons differ, and each is      *)
(* declared exactly once in the class output.                              *)
(***************************************************************************)
C10_CompareLabelsUnique ==
    Generated =>
        /\ \A s, t \in Sites("Stack", CompareOps) :
              s # t => Declared(ChunkOf(s)) \cap Declared(ChunkOf(t)) = {}
        /\ \A s \in Sites("Stack", CompareOps) :
              \A x \in Declared(ChunkOf(s)) :
                  Cardinality(DeclsOf(out.text, x)) = 1

(***************************************************************************)
(* C11  push static i and pop static i address the symbol C.i of the class *)
(* C, whatever the function and the position of the instruction.           *)
(***************************************************************************)
StaticSites ==
    { s \in Sites("Stack", {"Push", "Pop"}) :
        in.class.functions[s[1]].instr[s[2]].data.segment = "Static" }

StaticSymbol(s) ==
    in.class.name \o "."
        \o ToString(in.class.functions[s[1]].instr[s[2]].data.literal)

C11_StaticUsesClassScope ==
    /\ Generated => \A s \in StaticSites : Mentioned(ChunkOf(s)) = {StaticSymbol(s)}
    /\ phase = "run" => \A s \in StaticSites : symtab[StaticSymbol(s)] >= VarBase
    /\ in \in StaticInputs /\ Finished =>
          M(symtab[StaticSymbol(<<2, 3>>)]) = 9

\* the value popped in Cls.f sits where instruction 3 of Cls.g reads static i
C11_Witness ==
    /\ in \in StaticInputs /\ Finished
    /\ StaticSites = {<<1, 2>>, <<2, 3>>}
    /\ M(symtab[StaticSymbol(<<2, 3>>)]) = 9

(***************************************************************************)
(* Push and pop sites of one segment, and runs over one fixed cell.        *)
(***************************************************************************)
SegSites(t, segment) ==
    { s \in Sites("Stack", {t}) :
        in.class.functions[s[1]].instr[s[2]].data.segment = segment }

Lit(s) == in.class.functions[s[1]].instr[s[2]].data.literal

\* what generating the instruction at site s returns
ChunkResult(s) ==
    InstrChunk(in.class.functions[s[1]].instr[s[2]], FnName(s), in.class.name,
               s[2] - 1)

NoText(result) == ~result.ok /\ "text" \notin DOMAIN result

\* the run executes push constant 5; pop segment i
RunsPopTo(segment) ==
    /\ in.from = 1 /\ in.to = 2
    /\ in.class.functions[in.fi].instr[1] = push("Constant", 5)
    /\ Ins(2).t = "Pop" /\ Ins(2).segment = segment

\* the run executes push segment i alone
RunsPushFrom(segment) == RunsOne("Stack", "Push") /\ Ins(1).segment = segment

(***************************************************************************)
(* C12  temp i is the absolute address 5 + i for 0 <= i <= 7, for push and *)
(* pop; for i >= 8 generation fails with the segment-overflow error and    *)
(* yields no text.                                                         *)
(***************************************************************************)
C12_TempAddress ==
    /\ phase = "gen" =>
          \A s \in SegSites("Push", "Temp") \cup SegSites("Pop", "Temp") :
              /\ Lit(s) <= 7 =>
                    /\ ChunkResult(s).ok
                    /\ SubSeq(ChunkOf(s), 1, 2) = AtNum(5 + Lit(s))
              /\ Lit(s) >= 8 =>
                    /\ ChunkResult(s) = Err("SegmentOverflow")
                    /\ out = Err("SegmentOverflow") /\ NoText(out)
    /\ RunsPopTo("Temp") /\ Finished =>
          M(0) = S0 /\ M(5 + Ins(2).literal) = 5
    /\ RunsPushFrom("Temp") /\ Finished =>
          M(0) = S0 + 1 /\ M(S0) = M0(5 + Ins(1).literal)

\* temp 7 is accepted and temp 8, the next instruction, refused
C12_Witness ==
    /\ phase = "gen" /\ out = Err("SegmentOverflow")
    /\ ChunkResult(<<1, 1>>) = Push_generate("Temp", 7, "Cls.f.0")
    /\ ChunkResult(<<1, 1>>).ok
    /\ in.class.functions[1].instr[2] = pop("Temp", 8)

(***************************************************************************)
(* C13  pointer 0 addresses THIS and pointer 1 addresses THAT, for push    *)
(* and pop; every other literal fails with a Syntax error.                 *)
(***************************************************************************)
PointerCell(i) == IF i = 0 THEN "THIS" ELSE "THAT"

C13_PointerAddress ==
    /\ phase = "gen" =>
          \A s \in SegSites("Push", "Pointer") \cup SegSites("Pop", "Pointer") :
              /\ Lit(s) \in {0, 1} =>
                    /\ ChunkResult(s).ok
                    /\ SubSeq(ChunkOf(s), 1, 2) = At(PointerCell(Lit(s)))
                    /\ Mentioned(ChunkOf(s)) = {}
              /\ Lit(s) \notin {0, 1} =>
                    /\ ChunkResult(s) = Err("Syntax") /\ out = Err("Syntax")
    /\ RunsPopTo("Pointer") /\ Finished =>
          /\ M(0) = S0
          /\ M(Predefined[PointerCell(Ins(2).literal)]) = 5
          /\ M(Predefined[PointerCell(1 - Ins(2).literal)])
                = M0(Predefined[PointerCell(1 - Ins(2).literal)])
    /\ RunsPushFrom("Pointer") /\ Finished =>
          M(0) = S0 + 1 /\ M(S0) = M0(Predefined[PointerCell(Ins(1).literal)])

\* pop pointer 1 has written THAT and left a different THIS alone
C13_Witness ==
    /\ RunsPopTo("Pointer") /\ Finished
    /\ Ins(2).literal = 1
    /\ M(4) = 5 /\ M(3) = 3000 /\ M0(4) = 3000

(***************************************************************************)
(* C14  pop constant n fails with a Syntax error; push constant n succeeds *)
(* and pushes n; a failing instruction anywhere makes the generation of    *)
(* the class return that error, without text.                              *)
(***************************************************************************)
StackSites == Sites("Stack", {"Push", "Pop"} \cup AluOps)

FailingSites ==
    { s \in StackSites \cup Sites("Call", {}) \cup Sites("Branch", BranchKinds) :
        ~ChunkResult(s).ok }

C14_ConstantAndErrors ==
    /\ phase = "gen" =>
          /\ \A s \in SegSites("Pop", "Constant") : ChunkResult(s) = Err("Syntax")
          /\ \A s \in SegSites("Push", "Constant") :
                ChunkResult(s).ok /\ SubSeq(ChunkOf(s), 1, 2) = AtNum(Lit(s))
          /\ FailingSites # {} =>
                NoText(out) /\ out \in {ChunkResult(s) : s \in FailingSites}
    /\ RunsPushFrom("Constant") /\ Finished =>
          M(0) = S0 + 1 /\ M(S0) = Ins(1).literal /\ StackKeptBelow(S0)

\* the second function holds the refused instruction, the first is accepted
C14_Witness ==
    /\ phase = "gen" /\ out = Err("Syntax")
    /\ Len(in.class.functions) = 2
    /\ Function_scoped_generate(in.class.functions[1], in.class.name).ok
    /\ FailingSites = {<<2, 2>>}
    /\ in.class.functions[2].instr[2] = pop("Constant", 0)

(***************************************************************************)
(* C15  With pairwise distinct function names the generated text declares  *)
(* the label (Fn) exactly once for each function Fn: no branch, return or  *)
(* comparison label coincides with a function label.                       *)
(***************************************************************************)
C15_FunctionLabelsOnce ==
    Generated =>
        \A fi \in 1..Len(in.class.functions) :
            Cardinality(DeclsOf(out.text, in.class.functions[fi].name)) = 1

(***************************************************************************)
(* C16  Given a single vm file that reads, parses and generates without    *)
(* error, compile succeeds, link runs and the exit code is 0; the exit     *)
(* code is non-zero only after an I/O, parse or generation failure.        *)
(***************************************************************************)
NoFailure ==
    /\ drv.env.temp_ok /\ drv.env.output_ok
    /\ \A file \in drv.env.files : CompileOne(file, file_name(file)).ok

C16_SingleFileExitsZero ==
    drv.at = "exit" /\ drv.env.kind = "file" /\ NoFailure =>
        drv.exit = 0 /\ drv.outfile.written

(***************************************************************************)
(* C17  The parser accepts a program whose lines are separated by one or   *)
(* more newlines and returns the functions and instructions of the same    *)
(* program written with single newlines; return is not an instruction.     *)
(***************************************************************************)
SourceOf(stem) == (CHOOSE file \in drv.env.files : file.stem = stem).source

C17_BlankLinesAccepted ==
    drv.at \in {"link", "exit"} =>
        \A stem \in DOMAIN drv.parsed :
            SourceOf(stem).lexes =>
                drv.parsed[stem] = [ok |-> TRUE, functions |-> SourceOf(stem).program]

(***************************************************************************)
(* C18  The text of a function with n locals and body b is the label (F),  *)
(* n copies of the push constant 0 sequence, the chunks of b in order and  *)
(* the return epilogue once; the prologue run from stack pointer S leaves  *)
(* SP = S + n and M[S..S+n-1] zero.                                        *)
(***************************************************************************)
PushZero ==
    AtNum(0) \o Asg("D", "A") \o At("SP") \o Asg("A", "M") \o Asg("M", "D")
        \o At("SP") \o Asg("M", "M+1")

RECURSIVE Copies(_, _)
Copies(text, n) == IF n = 0 THEN <<>> ELSE text \o Copies(text, n - 1)

RECURSIVE ChunksFrom(_, _)
ChunksFrom(fi, n) ==
    IF n > Len(in.class.functions[fi].instr) THEN <<>>
    ELSE ChunkResult(<<fi, n>>).text \o ChunksFrom(fi, n + 1)

ExpectedFunction(fi) ==
    Lbl(in.class.functions[fi].name) \o Copies(PushZero, in.class.functions[fi].vars)
        \o ChunksFrom(fi, 1) \o ReturnEpilogue

RECURSIVE ExpectedFrom(_)
ExpectedFrom(fi) ==
    IF fi > Len(in.class.functions) THEN <<>>
    ELSE ExpectedFunction(fi) \o ExpectedFrom(fi + 1)

AllSites ==
    StackSites \cup Sites("Call", {}) \cup Sites("Branch", BranchKinds)

C19_ChunksEndInNewline ==
    Generated =>
        /\ \A s \in AllSites : ChunkOf(s)[Len(ChunkOf(s))] = NL
        /\ OneItemPerLine(out.text)

=============================================================================
